---- MODULE Spec2Model ----
(***************************************************************************)
(* Model of inventory_system.py: a process-wide stock table (a Python      *)
(* dict, which keeps insertion order), the operations that mutate and      *)
(* query it, and JSON persistence to one file.                             *)
(***************************************************************************)
EXTENDS Integers, Sequences, FiniteSets, TLC

(***************************************************************************)
(* Bounds of the model.                                                    *)
(***************************************************************************)
MaxQty == 2
MaxTotal == 3
FileMaxTotal == 1
PartialLen == 8

(***************************************************************************)
(* Python values passed as arguments.  Every value is a record of the same *)
(* shape: its type name, its text (str) and its number (int, bool; for a   *)
(* float, n stands for the value n + 0.5).                                 *)
(***************************************************************************)
PyStr(s) == [type |-> "str", s |-> s, n |-> 0]
PyInt(n) == [type |-> "int", s |-> "", n |-> n]
PyBool(b) == [type |-> "bool", s |-> "", n |-> IF b THEN 1 ELSE 0]
PyFloat(n) == [type |-> "float", s |-> "", n |-> n]
PyNone == [type |-> "NoneType", s |-> "", n |-> 0]
PyList == [type |-> "list", s |-> "", n |-> 0]

\* isinstance(x, str)
IsStr(x) == x.type = "str"
\* isinstance(x, int): bool is a subclass of int
IsInt(x) == x.type \in {"int", "bool"}
\* hash(x) succeeds: a list is unhashable
Hashable(x) == x.type # "list"

(***************************************************************************)
(* A dict is the sequence of its entries in insertion order.               *)
(***************************************************************************)
Keys(d) == {d[i].item : i \in 1..Len(d)}

Has(d, k) == k \in Keys(d)

IndexOf(d, k) == CHOOSE i \in 1..Len(d) : d[i].item = k

\* d[k]
Get(d, k) == d[IndexOf(d, k)].qty

\* d.get(k, default)
GetOr(d, k, default) == IF Has(d, k) THEN Get(d, k) ELSE default

\* d[k] = v: an existing key keeps its position, a new key goes last
Set(d, k, v) ==
    IF Has(d, k)
    THEN [d EXCEPT ![IndexOf(d, k)] = [item |-> k, qty |-> v]]
    ELSE Append(d, [item |-> k, qty |-> v])

\* del d[k]
Del(d, k) ==
    LET i == IndexOf(d, k)
    IN  SubSeq(d, 1, i - 1) \o SubSeq(d, i + 1, Len(d))

\* d1 == d2 for dicts: same keys, same values, whatever the order
DictEq(d1, d2) ==
    /\ Keys(d1) = Keys(d2)
    /\ \A k \in Keys(d1) : Get(d1, k) = Get(d2, k)

(***************************************************************************)
(* State.                                                                  *)
(*   stock_data  the stock table                                           *)
(*   fs          the file at the path given to load_data and save_data     *)
(*   last        the latest call: operation, arguments, the table before   *)
(*               it, what it returned or raised, the log sink after it     *)
(*   ledger      per item, the sum of the positive integers added since    *)
(*               the item was last absent, and whether only such additions *)
(*               touched it (history, for the cumulative-sum property)     *)
(***************************************************************************)
VARIABLES stock_data, fs, last, ledger

vars == <<stock_data, fs, last, ledger>>

Items == {"a", "\""}

\* return values
RetNone == [kind |-> "None", n |-> 0, names |-> <<>>, map |-> <<>>]
RetInt(n) == [kind |-> "int", n |-> n, names |-> <<>>, map |-> <<>>]
RetList(l) == [kind |-> "list", n |-> 0, names |-> l, map |-> <<>>]
RetDict(d) == [kind |-> "dict", n |-> 0, names |-> <<>>, map |-> d]

\* the optional logs argument: None, or a list of entries
NoLogs == [given |-> FALSE, entries |-> <<>>]
Logs(l) == [given |-> TRUE, entries |-> l]

\* One call as its caller sees it.  io is what the operating system did with
\* the file (for load_data and save_data); for a load, prev_io is the io of
\* the call before when that call was save_data.
Call(op, item, qty, logs_in, logs, ret, exc, io) ==
    [op |-> op, item |-> item, qty |-> qty, logs_in |-> logs_in,
     logs |-> logs, pre |-> stock_data, ret |-> ret, exc |-> exc, io |-> io,
     prev_io |-> IF op \in {"load_data", "main_reload"} /\ last.op = "save_data"
                 THEN last.io ELSE "-"]

NoCall ==
    [op |-> "-", item |-> PyNone, qty |-> PyNone, logs_in |-> NoLogs,
     logs |-> NoLogs, pre |-> <<>>, ret |-> RetNone, exc |-> "none",
     io |-> "-", prev_io |-> "-"]

Init ==
    /\ stock_data = <<>>
    /\ fs = [exists |-> FALSE, content |-> <<>>]
    /\ last = NoCall
    /\ ledger = [i \in Items |-> [sum |-> 0, clean |-> TRUE]]

(***************************************************************************)
(* add_item(item, qty, logs)                                               *)
(***************************************************************************)
\* the entry appended to logs: "<now>: Added <qty> of <item>"; without a
\* logs argument the entry goes to a list the caller never sees
LogEntry(item, qty) == [item |-> item.s, qty |-> qty.n]

\* add_item storing qty instead of adding it to the quantity in stock
add_item_overwrites(item, qty, logs) ==
    IF ~IsStr(item) \/ ~IsInt(qty)
    THEN /\ last' = Call("add_item", item, qty, logs, logs, RetNone, "none", "-")
         /\ UNCHANGED <<stock_data, fs>>
    ELSE /\ stock_data' = Set(stock_data, item.s, qty.n)
         /\ last' = Call("add_item", item, qty, logs,
                         IF logs.given
                         THEN Logs(Append(logs.entries, LogEntry(item, qty)))
                         ELSE NoLogs,
                         RetNone, "none", "-")
         /\ UNCHANGED fs

add_item(item, qty, logs) ==
    IF ~IsStr(item) \/ ~IsInt(qty)
    THEN /\ last' = Call("add_item", item, qty, logs, logs, RetNone, "none", "-")
         /\ UNCHANGED <<stock_data, fs>>
    ELSE /\ stock_data' = Set(stock_data, item.s, GetOr(stock_data, item.s, 0) + qty.n)
         /\ last' = Call("add_item", item, qty, logs,
                         IF logs.given
                         THEN Logs(Append(logs.entries, LogEntry(item, qty)))
                         ELSE NoLogs,
                         RetNone, "none", "-")
         /\ UNCHANGED fs

(***************************************************************************)
(* remove_item(item, qty).  The quantities of the model are integers: a    *)
(* float qty, which the code would subtract and store as a float, is passed *)
(* only for an item that is not in stock.                                  *)
(***************************************************************************)
\* stock_data[item] -= qty raises TypeError unless qty is a number
Subtractable(qty) == qty.type \in {"int", "bool", "float"}

\* remove_item deleting the key only below zero
remove_item_keeps_zero(item, qty) ==
    /\ qty.type = "float" => ~(IsStr(item) /\ Has(stock_data, item.s))
    /\ last' = Call("remove_item", item, qty, NoLogs, NoLogs, RetNone, "none", "-")
    /\ UNCHANGED fs
    /\ IF ~Hashable(item)
       THEN UNCHANGED stock_data
       ELSE IF IsStr(item) /\ Has(stock_data, item.s)
       THEN IF ~Subtractable(qty)
            THEN UNCHANGED stock_data
            ELSE IF Get(stock_data, item.s) - qty.n < 0
            THEN stock_data' = Del(stock_data, item.s)
            ELSE stock_data' = Set(stock_data, item.s, Get(stock_data, item.s) - qty.n)
       ELSE UNCHANGED stock_data

\* remove_item taking an absent item for one with quantity 0
remove_item_from_zero(item, qty) ==
    /\ qty.type = "float" => ~(IsStr(item) /\ Has(stock_data, item.s))
    /\ last' = Call("remove_item", item, qty, NoLogs, NoLogs, RetNone, "none", "-")
    /\ UNCHANGED fs
    /\ IF ~Hashable(item) \/ ~IsStr(item) \/ ~Subtractable(qty)
       THEN UNCHANGED stock_data
       ELSE IF GetOr(stock_data, item.s, 0) - qty.n <= 0
       THEN stock_data' = IF Has(stock_data, item.s) THEN Del(stock_data, item.s)
                          ELSE stock_data
       ELSE stock_data' = Set(stock_data, item.s, GetOr(stock_data, item.s, 0) - qty.n)

remove_item(item, qty) ==
    /\ qty.type = "float" => ~(IsStr(item) /\ Has(stock_data, item.s))
    /\ last' = Call("remove_item", item, qty, NoLogs, NoLogs, RetNone, "none", "-")
    /\ UNCHANGED fs
    /\ IF ~Hashable(item)
       THEN UNCHANGED stock_data           \* TypeError, caught
       ELSE IF IsStr(item) /\ Has(stock_data, item.s)
       THEN IF ~Subtractable(qty)
            THEN UNCHANGED stock_data      \* TypeError, caught
            ELSE IF Get(stock_data, item.s) - qty.n <= 0
            THEN stock_data' = Del(stock_data, item.s)
            ELSE stock_data' = Set(stock_data, item.s, Get(stock_data, item.s) - qty.n)
       ELSE UNCHANGED stock_data

(***************************************************************************)
(* get_qty(item)                                                           *)
(***************************************************************************)
\* stock_data.get(item) for a hashable item
Lookup(d, item) ==
    IF IsStr(item) /\ Has(d, item.s) THEN RetInt(Get(d, item.s)) ELSE RetNone

get_qty(item) ==
    /\ last' = IF Hashable(item)
               THEN Call("get_qty", item, PyNone, NoLogs, NoLogs,
                         Lookup(stock_data, item), "none", "-")
               ELSE Call("get_qty", item, PyNone, NoLogs, NoLogs,
                         RetNone, "TypeError", "-")
    /\ UNCHANGED <<stock_data, fs>>

(***************************************************************************)
(* check_low_items(threshold)                                              *)
(* Below is qty < threshold for a number threshold (a float stands for     *)
(* n + 0.5).                                                               *)
(***************************************************************************)
\* qty <= threshold in place of qty < threshold
BelowOrEqual(qty, threshold) == qty <= threshold.n

Below(qty, threshold) ==
    IF threshold.type = "float" THEN qty <= threshold.n ELSE qty < threshold.n

Comparable(threshold) == threshold.type \in {"int", "bool", "float"}

RECURSIVE LowItems(_, _)
LowItems(d, threshold) ==
    IF d = <<>> THEN <<>>
    ELSE (IF Below(Head(d).qty, threshold) THEN <<Head(d).item>> ELSE <<>>)
         \o LowItems(Tail(d), threshold)

check_low_items(threshold) ==
    /\ last' = IF Comparable(threshold)
               THEN Call("check_low_items", PyNone, threshold, NoLogs, NoLogs,
                         RetList(LowItems(stock_data, threshold)), "none", "-")
               ELSE IF stock_data = <<>>
               THEN Call("check_low_items", PyNone, threshold, NoLogs, NoLogs,
                         RetList(<<>>), "none", "-")
               ELSE Call("check_low_items", PyNone, threshold, NoLogs, NoLogs,
                         RetNone, "TypeError", "-")
    /\ UNCHANGED <<stock_data, fs>>

(***************************************************************************)
(* print_data(): the lines after the header, one per entry, in order       *)
(***************************************************************************)
print_data ==
    /\ last' = Call("print_data", PyNone, PyNone, NoLogs, NoLogs,
                    RetDict(stock_data), "none", "-")
    /\ UNCHANGED <<stock_data, fs>>

(***************************************************************************)
(* json.dump(stock_data, f, indent=4): the text written, one character per *)
(* element.  Item names are one character long.                            *)
(***************************************************************************)
Indent == 4

DigitChars == <<"0", "1", "2", "3", "4", "5", "6", "7", "8", "9">>

RECURSIVE Digits(_)
Digits(n) ==
    IF n < 10 THEN <<DigitChars[n + 1]>>
    ELSE Digits(n \div 10) \o <<DigitChars[(n % 10) + 1]>>

\* int.__repr__
DumpInt(n) == IF n < 0 THEN <<"-">> \o Digits(-n) ELSE Digits(n)

\* a string written between quotes as it is, nothing escaped
DumpStrRaw(s) == <<"\"", s, "\"">>

\* a string: quoted, with the quote and the backslash escaped
DumpStr(s) ==
    <<"\"">> \o (IF s \in {"\"", "\\"} THEN <<"\\", s>> ELSE <<s>>) \o <<"\"">>

NewLine == <<"\n">> \o [i \in 1..Indent |-> " "]

RECURSIVE DumpMembers(_)
DumpMembers(d) ==
    IF d = <<>> THEN <<>>
    ELSE NewLine \o DumpStr(Head(d).item) \o <<":", " ">> \o DumpInt(Head(d).qty)
         \o (IF Tail(d) = <<>> THEN <<>> ELSE <<",">>)
         \o DumpMembers(Tail(d))

Dump(d) ==
    IF d = <<>> THEN <<"{", "}">>
    ELSE <<"{">> \o DumpMembers(d) \o <<"\n", "}">>

(***************************************************************************)
(* json.load(f): f.read() decodes the bytes as UTF-8, then the decoder     *)
(* parses the text.  The decoder is modelled on objects whose keys are     *)
(* strings and whose values are integers, and on every text that is a      *)
(* prefix of one.  InvalidByte is a byte that is no UTF-8.                 *)
(***************************************************************************)
InvalidByte == "0xff"

DecodesAsUTF8(bytes) == \A i \in 1..Len(bytes) : bytes[i] # InvalidByte

Whitespace == {" ", "\n"}

RECURSIVE SkipWs(_, _)
SkipWs(s, i) ==
    IF i <= Len(s) /\ s[i] \in Whitespace THEN SkipWs(s, i + 1) ELSE i

Failed == [ok |-> FALSE, pos |-> 0, str |-> "", num |-> 0, map |-> <<>>]

\* py_scanstring from position i, after the opening quote
RECURSIVE ScanString(_, _, _)
ScanString(s, i, acc) ==
    IF i > Len(s) THEN Failed                       \* unterminated string
    ELSE IF s[i] = "\""
    THEN [Failed EXCEPT !.ok = TRUE, !.pos = i + 1, !.str = acc]
    ELSE IF s[i] = "\\"
    THEN IF i + 1 <= Len(s) /\ s[i + 1] \in {"\"", "\\"}
         THEN ScanString(s, i + 2, acc \o s[i + 1])
         ELSE Failed                                \* invalid escape
    ELSE IF s[i] = "\n" THEN Failed                 \* control character
    ELSE ScanString(s, i + 1, acc \o s[i])

DigitValue(c) == CHOOSE n \in 0..9 : DigitChars[n + 1] = c

IsDigit(s, i) == i <= Len(s) /\ \E n \in 1..10 : DigitChars[n] = s[i]

RECURSIVE ScanDigits(_, _, _)
ScanDigits(s, i, acc) ==
    IF IsDigit(s, i) THEN ScanDigits(s, i + 1, 10 * acc + DigitValue(s[i]))
    ELSE [Failed EXCEPT !.ok = TRUE, !.pos = i, !.num = acc]

\* NUMBER_RE from position i: -?(0|[1-9][0-9]*)
ScanNumber(s, i) ==
    LET j == IF i <= Len(s) /\ s[i] = "-" THEN i + 1 ELSE i
        r == IF ~IsDigit(s, j) THEN Failed
             ELSE IF s[j] = "0"
             THEN [Failed EXCEPT !.ok = TRUE, !.pos = j + 1]
             ELSE ScanDigits(s, j, 0)
    IN  IF r.ok /\ j > i THEN [r EXCEPT !.num = -r.num] ELSE r

\* JSONObject from position i, where a key's opening quote is expected
RECURSIVE ScanMembers(_, _, _)
ScanMembers(s, i, acc) ==
    IF ~(i <= Len(s) /\ s[i] = "\"") THEN Failed
    ELSE LET key == ScanString(s, i + 1, "")
             c == SkipWs(s, key.pos)
             v == ScanNumber(s, SkipWs(s, c + 1))
             e == SkipWs(s, v.pos)
         IN  IF ~key.ok THEN Failed
             ELSE IF ~(c <= Len(s) /\ s[c] = ":") THEN Failed
             ELSE IF ~v.ok THEN Failed
             ELSE IF e > Len(s) THEN Failed
             ELSE IF s[e] = "}"
             THEN [Failed EXCEPT !.ok = TRUE, !.pos = e + 1,
                                 !.map = Set(acc, key.str, v.num)]
             ELSE IF s[e] = ","
             THEN ScanMembers(s, SkipWs(s, e + 1), Set(acc, key.str, v.num))
             ELSE Failed

\* json.loads(text): the object, or JSONDecodeError
Parse(s) ==
    LET i == SkipWs(s, 1)
        r == IF ~(i <= Len(s) /\ s[i] = "{") THEN Failed
             ELSE LET j == SkipWs(s, i + 1)
                  IN  IF j <= Len(s) /\ s[j] = "}"
                      THEN [Failed EXCEPT !.ok = TRUE, !.pos = j + 1]
                      ELSE ScanMembers(s, j, <<>>)
    IN  IF r.ok /\ SkipWs(s, r.pos) <= Len(s) THEN Failed   \* extra data
        ELSE r

(***************************************************************************)
(* save_data(file).  io is what the operating system does: "ok"; or        *)
(* "open_fails", open() raises OSError and the file is left as it was; or  *)
(* "write_fails", open() has created and emptied the file and OSError is   *)
(* raised after the first n characters reached it.  OSError is caught.     *)
(***************************************************************************)
save_data(io, n) ==
    /\ last' = Call("save_data", PyNone, PyNone, NoLogs, NoLogs, RetNone, "none", io)
    /\ fs' = CASE io = "ok" -> [exists |-> TRUE, content |-> Dump(stock_data)]
               [] io = "write_fails" ->
                      [exists |-> TRUE, content |-> SubSeq(Dump(stock_data), 1, n)]
               [] OTHER -> fs
    /\ UNCHANGED stock_data

(***************************************************************************)
(* load_data(file).  io is "ok", or "open_fails" when open() raises an     *)
(* OSError other than FileNotFoundError (the file exists and cannot be     *)
(* read).  Only FileNotFoundError and JSONDecodeError are caught.          *)
(***************************************************************************)
Loaded(io) ==
    IF ~fs.exists THEN [ret |-> RetDict(<<>>), exc |-> "none"]
    ELSE IF io = "open_fails" THEN [ret |-> RetNone, exc |-> "OSError"]
    ELSE IF ~DecodesAsUTF8(fs.content)
    THEN [ret |-> RetNone, exc |-> "UnicodeDecodeError"]
    ELSE LET data == Parse(fs.content)
         IN  IF ~data.ok THEN [ret |-> RetDict(<<>>), exc |-> "none"]
             ELSE [ret |-> RetDict(data.map), exc |-> "none"]

\* load_data storing what it loaded in the stock table
load_data_into_table(io) ==
    LET r == Loaded(io)
    IN  /\ last' = Call("load_data", PyNone, PyNone, NoLogs, NoLogs, r.ret, r.exc, io)
        /\ stock_data' = r.ret.map
        /\ UNCHANGED fs

load_data(io) ==
    LET r == Loaded(io)
    IN  /\ last' = Call("load_data", PyNone, PyNone, NoLogs, NoLogs, r.ret, r.exc, io)
        /\ UNCHANGED <<stock_data, fs>>

\* stock_data.update(loaded_data) on the cleared table
RECURSIVE Update(_, _)
Update(d, loaded) ==
    IF loaded = <<>> THEN d
    ELSE Update(Set(d, Head(loaded).item, Head(loaded).qty), Tail(loaded))

(***************************************************************************)
(* main's reload: loaded_data = load_data(); stock_data.clear();           *)
(* stock_data.update(loaded_data).  An exception out of load_data ends     *)
(* main before the table is touched.                                       *)
(***************************************************************************)
main_reload(io) ==
    LET r == Loaded(io)
    IN  /\ last' = Call("main_reload", PyNone, PyNone, NoLogs, NoLogs, r.ret, r.exc, io)
        /\ stock_data' = IF r.exc = "none" THEN Update(<<>>, r.ret.map)
                         ELSE stock_data
        /\ UNCHANGED fs

(***************************************************************************)
(* The file belongs to the file system: something else may remove it or    *)
(* overwrite it with bytes that are no UTF-8.                              *)
(***************************************************************************)
env_remove ==
    /\ fs.exists
    /\ fs' = [exists |-> FALSE, content |-> <<>>]
    /\ last' = [NoCall EXCEPT !.op = "env_remove", !.pre = stock_data]
    /\ UNCHANGED stock_data

env_corrupt ==
    /\ fs' = [exists |-> TRUE, content |-> <<InvalidByte>>]
    /\ last' = [NoCall EXCEPT !.op = "env_corrupt", !.pre = stock_data]
    /\ UNCHANGED stock_data

(***************************************************************************)
(* Arguments the callers pass.                                             *)
(***************************************************************************)
TextItems == {PyStr(i) : i \in Items}
OtherItems == {PyInt(1), PyNone, PyList}
IntQtys == {PyInt(n) : n \in -MaxQty..MaxQty}
BoolQtys == {PyBool(TRUE), PyBool(FALSE)}
OtherQtys == {PyFloat(1), PyStr("1"), PyNone}
LogsArgs == {NoLogs, Logs(<<[item |-> "a", qty |-> 1]>>)}
\* add_item and remove_item: a text item with every quantity, and every other
\* item with an integer and with a value that is no integer
ItemQtyArgs ==
    (TextItems \X (IntQtys \cup BoolQtys \cup OtherQtys))
        \cup (OtherItems \X {PyInt(1), PyNone})
Thresholds == {PyInt(n) : n \in -(MaxTotal + 1)..(MaxTotal + 1)} \cup {PyFloat(0), PyNone}

\* every quantity of the table within the model's range
Bounded(d, max) == \A i \in 1..Len(d) : d[i].qty \in -max..max

(***************************************************************************)
(* The ledger: for each item, the sum of the positive integers added since *)
(* it was absent, clean while nothing but such additions touched it.       *)
(***************************************************************************)
Track ==
    ledger' = [i \in Items |->
        IF last'.op = "add_item" /\ last'.item = PyStr(i) /\ IsInt(last'.qty)
        THEN IF last'.qty.type = "int" /\ last'.qty.n > 0 /\ ledger[i].clean
             THEN [sum |-> ledger[i].sum + last'.qty.n, clean |-> TRUE]
             ELSE [sum |-> 0, clean |-> FALSE]
        ELSE IF ~Has(stock_data', i) THEN [sum |-> 0, clean |-> TRUE]
        ELSE IF last'.op = "remove_item" /\ last'.item = PyStr(i)
        THEN [sum |-> 0, clean |-> FALSE]
        ELSE ledger[i]]

(***************************************************************************)
(* The table operations, called in any order with any arguments.           *)
(***************************************************************************)
Next ==
    \/ \E a \in ItemQtyArgs, logs \in LogsArgs :
          add_item(a[1], a[2], logs) /\ Bounded(stock_data', MaxTotal) /\ Track
    \/ \E a \in ItemQtyArgs :
          remove_item(a[1], a[2]) /\ Bounded(stock_data', MaxTotal) /\ Track
    \/ \E item \in TextItems \cup OtherItems : get_qty(item) /\ Track
    \/ \E threshold \in Thresholds : check_low_items(threshold) /\ Track
    \/ print_data /\ Track

Spec == Init /\ [][Next]_vars

(***************************************************************************)
(* All the operations and the file.                                        *)
(***************************************************************************)
FileItemQtyArgs ==
    (TextItems \X {PyInt(1), PyInt(-1)}) \cup {<<PyStr("a"), PyFloat(1)>>, <<PyList, PyInt(1)>>}
FileThresholds == {PyInt(1), PyNone}
SaveOutcomes == {<<"ok", 0>>, <<"open_fails", 0>>, <<"write_fails", 0>>, <<"write_fails", PartialLen>>}
LoadOutcomes == {"ok", "open_fails"}

FileNext ==
    \/ \E a \in FileItemQtyArgs :
          add_item(a[1], a[2], NoLogs) /\ Bounded(stock_data', FileMaxTotal)
                                       /\ UNCHANGED ledger
    \/ \E a \in FileItemQtyArgs :
          remove_item(a[1], a[2]) /\ Bounded(stock_data', FileMaxTotal)
                                  /\ UNCHANGED ledger
    \/ \E item \in TextItems \cup {PyList} : get_qty(item) /\ UNCHANGED ledger
    \/ \E threshold \in FileThresholds : check_low_items(threshold) /\ UNCHANGED ledger
    \/ print_data /\ UNCHANGED ledger
    \/ \E o \in SaveOutcomes :
          /\ o[1] = "write_fails" => o[2] < Len(Dump(stock_data))
          /\ save_data(o[1], o[2]) /\ UNCHANGED ledger
    \/ \E io \in LoadOutcomes :
          /\ io = "open_fails" => fs.exists
          /\ load_data(io) /\ UNCHANGED ledger
    \/ \E io \in LoadOutcomes :
          /\ io = "open_fails" => fs.exists
          /\ main_reload(io) /\ UNCHANGED ledger
    \/ env_remove /\ UNCHANGED ledger
    \/ env_corrupt /\ UNCHANGED ledger

SpecFile == Init /\ [][FileNext]_vars

(***************************************************************************)
(* Properties.                                                             *)
(***************************************************************************)
Positive(d) == \A i \in 1..Len(d) : d[i].qty > 0

\* C1: every key present in the stock table has a strictly positive
\* quantity: add_item or remove_item with a text item and any integer qty
\* (zero and negative included), called on a table whose quantities are all
\* positive, leaves a table whose quantities are all positive.
C1_QuantitiesStayPositive ==
    (/\ last.op \in {"add_item", "remove_item"}
     /\ IsStr(last.item) /\ last.qty.type = "int"
     /\ Positive(last.pre))
        => Positive(stock_data)

PublicOperations ==
    {"add_item", "remove_item", "get_qty", "check_low_items", "print_data",
     "load_data", "save_data"}

\* C2: no public operation propagates an exception to its caller, whatever
\* fails: a wrong argument type, a missing item, a missing, unreadable or
\* unwritable file, malformed JSON.
C2_NoOperationRaises ==
    last.op \in PublicOperations => last.exc = "none"

\* C3: after add_item(item, q_i) calls with positive integers q_i on an item
\* that was absent, with operations on other items in between and nothing
\* else touching this item, get_qty(item) returns the sum of the q_i.
C3_CumulativeSum ==
    \A i \in Items :
        (ledger[i].clean /\ ledger[i].sum > 0) =>
            /\ Lookup(stock_data, PyStr(i)) = RetInt(ledger[i].sum)
            /\ (last.op = "get_qty" /\ last.item = PyStr(i))
                   => (last.ret = RetInt(ledger[i].sum) /\ last.exc = "none")

\* get_qty("a") has just returned the sum of at least two additions, the
\* other item in stock
C3_Witness ==
    /\ last.op = "get_qty" /\ last.item = PyStr("a")
    /\ ledger["a"].clean /\ ledger["a"].sum > MaxQty
    /\ last.ret = RetInt(ledger["a"].sum)
    /\ Len(stock_data) = 2

\* C4: remove_item(item, qty) on an item in stock with quantity c, qty any
\* integer: when c - qty <= 0 the item is absent afterwards (get_qty returns
\* None and the key is not in what save_data would write); otherwise the
\* item is in stock with quantity exactly c - qty.
C4_RemoveResult ==
    (/\ last.op = "remove_item"
     /\ IsStr(last.item) /\ Has(last.pre, last.item.s)
     /\ last.qty.type = "int")
        => LET c == Get(last.pre, last.item.s)
               q == last.qty.n
           IN  /\ last.exc = "none"
               /\ IF c - q <= 0
                  THEN /\ ~Has(stock_data, last.item.s)
                       /\ Lookup(stock_data, last.item) = RetNone
                       /\ ~Has(Parse(Dump(stock_data)).map, last.item.s)
                  ELSE /\ Has(stock_data, last.item.s)
                       /\ Lookup(stock_data, last.item) = RetInt(c - q)

\* remove_item has just taken the whole positive quantity of an item
C4_Witness ==
    /\ last.op = "remove_item" /\ last.item = PyStr("a")
    /\ last.qty.type = "int"
    /\ Has(last.pre, "a") /\ Get(last.pre, "a") > 0
    /\ last.qty.n = Get(last.pre, "a")
    /\ ~Has(stock_data, "a")

\* C5: add_item with an item that is not text or a qty that is not an
\* integer (a float, a string, None, a boolean) leaves the stock table as it
\* was, appends nothing to the logs it was given, and returns normally.
C5_InvalidAddIsNoOp ==
    (/\ last.op = "add_item"
     /\ (last.item.type # "str" \/ last.qty.type # "int"))
        => /\ stock_data = last.pre
           /\ last.logs = last.logs_in
           /\ last.exc = "none"

\* C6: remove_item(item, qty) on an item that is not a key of the stock
\* table leaves the whole table unchanged and returns normally, for every
\* qty.
C6_RemoveAbsentIsNoOp ==
    (/\ last.op = "remove_item"
     /\ ~(IsStr(last.item) /\ Has(last.pre, last.item.s)))
        => (stock_data = last.pre /\ last.exc = "none")

\* remove_item has just been called, with a negative quantity, on an item
\* that is not in a table holding the other item
C6_Witness ==
    /\ last.op = "remove_item" /\ last.item = PyStr("a")
    /\ last.qty.type = "int" /\ last.qty.n < 0
    /\ ~Has(last.pre, "a") /\ Len(last.pre) = 1
    /\ stock_data = last.pre

\* C7: check_low_items(threshold), threshold any integer, returns exactly
\* the items whose quantity is strictly less than threshold, each once, in
\* the table's insertion order: all the items when threshold exceeds every
\* quantity, none when threshold is at most the least quantity; the stock
\* table is unchanged.
C7_LowItems ==
    (last.op = "check_low_items" /\ last.qty.type = "int")
        => LET t == last.qty.n
               low == last.ret.names
               d == last.pre
           IN  /\ last.exc = "none" /\ last.ret.kind = "list"
               /\ \A k \in Keys(d) :
                      (Get(d, k) < t) <=> (\E i \in 1..Len(low) : low[i] = k)
               /\ \A i \in 1..Len(low) : Has(d, low[i])
               /\ \A i, j \in 1..Len(low) :
                      i < j => IndexOf(d, low[i]) < IndexOf(d, low[j])
               /\ (\A k \in Keys(d) : t > Get(d, k)) => Len(low) = Len(d)
               /\ (\A k \in Keys(d) : t <= Get(d, k)) => low = <<>>
               /\ stock_data = d

\* check_low_items has just returned the second of two items and not the
\* first, whose quantity equals the threshold
C7_Witness ==
    /\ last.op = "check_low_items" /\ last.qty.type = "int"
    /\ Len(last.pre) = 2
    /\ last.pre[1].qty = last.qty.n
    /\ last.ret.names = <<last.pre[2].item>>

Loads == {"load_data", "main_reload"}

RoundTrip ==
    /\ last.exc = "none" /\ last.ret.kind = "dict"
    /\ DictEq(last.ret.map, last.pre)
    /\ last.op = "main_reload" => stock_data = last.pre

ValidJSON(bytes) == DecodesAsUTF8(bytes) /\ Parse(bytes).ok

\* C9: load_data(path) returns an empty mapping, without raising, whenever
\* the file does not exist or its content is not valid JSON, whatever the
\* stock table holds.
C9_LoadFailureGivesEmpty ==
    (/\ last.op = "load_data" /\ last.io = "ok"
     /\ (~fs.exists \/ ~ValidJSON(fs.content)))
        => (last.ret = RetDict(<<>>) /\ last.exc = "none")

\* C10: add_item(item, ...) and remove_item(item, ...) leave the presence
\* and the quantity of every other item unchanged; get_qty, check_low_items,
\* print_data, save_data and load_data, succeeding or failing, leave the
\* whole stock table unchanged.
C10_Frame ==
    /\ last.op \in {"add_item", "remove_item"} =>
           \A k \in Items :
               last.item # PyStr(k) =>
                   /\ Has(stock_data, k) <=> Has(last.pre, k)
                   /\ Has(stock_data, k) => Get(stock_data, k) = Get(last.pre, k)
    /\ last.op \in {"get_qty", "check_low_items", "print_data", "save_data",
                    "load_data"} => stock_data = last.pre

\* load_data has just returned a saved table that differs from the stock
\* table, which still holds two items
C10_Witness ==
    /\ last.op = "load_data" /\ last.exc = "none"
    /\ Len(last.ret.map) = 1 /\ Len(stock_data) = 2
    /\ stock_data = last.pre

====
